---- MODULE Spec2Model ----
(***************************************************************************)
(* A model of casus (src/src/lib.rs): the one-shot Waiter<T> cell and the  *)
(* resettable Event built on it.                                           *)
(*                                                                         *)
(* Every critical section of the source is one action: a Waiter's wake and *)
(* poll each run under the Waiter's Mutex, the flag is read and written     *)
(* under its RwLock for the length of one statement, and set() holds the   *)
(* registry Mutex for the whole of its loop, one wake per step.            *)
(***************************************************************************)
EXTENDS Naturals, Sequences, FiniteSets, TLC

\* ------------------------------------------------------------------ bounds
NumTasks == 2
MaxWaiters == 2
MaxOps == 5

Tasks == 1..NumTasks
\* The threads that call Event::set.
Setters == {"s1", "s2"}
Values == {"v1", "v2"}

\* Option::None, and the unit value Event::set wakes its waiters with.
None == "None"
\* Option<Waker>::None; a stored callback is a positive number.
NoWaker == 0
Unit == "unit"
\* The registry Mutex is not held.
Free == "free"

VARIABLES
    \* Event
    signaled,   \* Event.state: RwLock<bool>
    waiters,    \* Event.waiters: the Vec of registered Waiter clones (cell ids)
    regLock,    \* holder of the waiters Mutex: Free, or the setter iterating
    regPoisoned,\* the waiters Mutex was poisoned by a panic of its holder
    cell,       \* the Arc<Mutex<(bool, Option<Waker>, Option<T>)>> of each Waiter
    \* the tasks that call Event::wait
    pc,         \* where each task is inside wait()
    fut,        \* the Waiter each task created (0: none)
    ret,        \* what wait() returned, once pc is "done"
    notified,   \* the task's Waker was invoked: the executor will poll it again
    \* the threads that call Event::set
    spc,        \* where each setter is inside set()
    idx,        \* the position of its iteration over the registry
    \* observers
    obs,        \* what is_set() returned last, once it was called
    lastOp,     \* history: the flag operation that completed last
    armed,      \* history: wait() began after a clear() had returned, with no
                \*          set() running, and no set() has begun since
    \* a stand-alone Waiter<T>, woken and polled directly
    wc,         \* its cell
    log,        \* history: every poll and wake made on it, with its outcome
    \* the Event's operations taken lock by lock
    lk          \* who holds each lock, and where each thread is between them

evars == <<signaled, waiters, regLock, regPoisoned, cell, pc, fut, ret,
           notified, spc, idx, obs, lastOp, armed>>
wvars == <<wc, log, lk>>
vars == <<signaled, waiters, regLock, regPoisoned, cell, pc, fut, ret,
          notified, spc, idx, obs, lastOp, armed, wc, log, lk>>

\* ------------------------------------------------------------------ Waiter

\* Waiter::new: (false, None, None), behind a Mutex that is not poisoned.
NewWaiter ==
    [completed |-> FALSE, waker |-> NoWaker, value |-> None, poisoned |-> FALSE]

\* Waiter::wake without the take(): the stored callback is invoked and left
\* in place.
WakeKeepsCallback(c, v) ==
    IF c.poisoned
    THEN [cell |-> c, fired |-> NoWaker, out |-> "Panic"]
    ELSE [cell |-> [c EXCEPT !.completed = TRUE, !.value = v],
          fired |-> c.waker, out |-> "Ok"]

\* Waiter::wake that stores the value but forgets to set the flag.
WakeNoFlag(c, v) ==
    IF c.poisoned
    THEN [cell |-> c, fired |-> NoWaker, out |-> "Panic"]
    ELSE [cell |-> [c EXCEPT !.value = v, !.waker = NoWaker],
          fired |-> c.waker, out |-> "Ok"]

\* Waiter::wake that drops the stored callback without invoking it.
WakeForgetsCallback(c, v) ==
    IF c.poisoned
    THEN [cell |-> c, fired |-> NoWaker, out |-> "Panic"]
    ELSE [cell |-> [c EXCEPT !.completed = TRUE, !.value = v, !.waker = NoWaker],
          fired |-> NoWaker, out |-> "Ok"]

\* Waiter::wake(v) on cell c: lock (a poisoned Mutex panics at unwrap), set the
\* flag, store the value, take the callback and invoke it.  `fired` is the
\* callback invoked, or None.
WakeCell(c, v) ==
    IF c.poisoned
    THEN [cell |-> c, fired |-> NoWaker, out |-> "Panic"]
    ELSE [cell |-> [c EXCEPT !.completed = TRUE, !.value = v, !.waker = NoWaker],
          fired |-> c.waker, out |-> "Ok"]

\* poll that reads the value without take(): the slot stays populated.
PollKeepsValue(c, wk) ==
    IF c.poisoned
    THEN [cell |-> c, out |-> "Panic", got |-> None]
    ELSE IF c.completed
         THEN IF c.value = None
              THEN [cell |-> [c EXCEPT !.poisoned = TRUE],
                    out |-> "Panic", got |-> None]
              ELSE [cell |-> c, out |-> "Ready", got |-> c.value]
         ELSE [cell |-> [c EXCEPT !.waker = wk], out |-> "Pending", got |-> None]

\* poll that re-arms the Waiter when it yields the value.
PollResetsFlag(c, wk) ==
    IF c.poisoned
    THEN [cell |-> c, out |-> "Panic", got |-> None]
    ELSE IF c.completed
         THEN IF c.value = None
              THEN [cell |-> [c EXCEPT !.poisoned = TRUE],
                    out |-> "Panic", got |-> None]
              ELSE [cell |-> [c EXCEPT !.value = None, !.completed = FALSE],
                    out |-> "Ready", got |-> c.value]
         ELSE [cell |-> [c EXCEPT !.waker = wk], out |-> "Pending", got |-> None]

\* poll that stores its callback only when none is stored yet.
PollKeepsFirstCallback(c, wk) ==
    IF c.poisoned
    THEN [cell |-> c, out |-> "Panic", got |-> None]
    ELSE IF c.completed
         THEN IF c.value = None
              THEN [cell |-> [c EXCEPT !.poisoned = TRUE],
                    out |-> "Panic", got |-> None]
              ELSE [cell |-> [c EXCEPT !.value = None],
                    out |-> "Ready", got |-> c.value]
         ELSE [cell |-> [c EXCEPT !.waker =
                            IF c.waker = NoWaker THEN wk ELSE c.waker],
               out |-> "Pending", got |-> None]

\* poll that yields without testing the completed flag.
PollReadyWhenPending(c, wk) ==
    IF c.poisoned
    THEN [cell |-> c, out |-> "Panic", got |-> None]
    ELSE IF c.completed /\ c.value = None
         THEN [cell |-> [c EXCEPT !.poisoned = TRUE],
               out |-> "Panic", got |-> None]
         ELSE [cell |-> [c EXCEPT !.value = None],
               out |-> "Ready", got |-> c.value]

\* <Waiter as Future>::poll on cell c with the context's waker wk: lock; if
\* completed, take the value and unwrap it (an empty slot panics with the lock
\* held, which poisons the Mutex); otherwise store a clone of the waker.
PollCell(c, wk) ==
    IF c.poisoned
    THEN [cell |-> c, out |-> "Panic", got |-> None]
    ELSE IF c.completed
         THEN IF c.value = None
              THEN [cell |-> [c EXCEPT !.poisoned = TRUE],
                    out |-> "Panic", got |-> None]
              ELSE [cell |-> [c EXCEPT !.value = None],
                    out |-> "Ready", got |-> c.value]
         ELSE [cell |-> [c EXCEPT !.waker = wk], out |-> "Pending", got |-> None]

\* ------------------------------------------------------------------ locks

\* The threads that call set(), clear() and is_set() in the lock-by-lock
\* specification; the tasks that call wait() are Tasks.
Callers == {NumTasks + 1, NumTasks + 2}
Threads == Tasks \cup Callers

\* No lock is held and no thread is inside an operation.  A lock's holder is
\* a thread, or 0; the flag's RwLock has one writer or a set of readers.
LkInit ==
    [pc |-> [th \in Threads |-> "idle"],
     op |-> [th \in Callers |-> "none"],
     flagW |-> 0,
     flagR |-> {},
     reg |-> 0,
     cl |-> << >>,
     fut |-> [t \in Tasks |-> 0],
     idx |-> [th \in Callers |-> 0]]

\* ------------------------------------------------------------------ Init

\* Event::new and, for the stand-alone Waiter, Waiter::new.
Init ==
    /\ signaled = FALSE
    /\ waiters = << >>
    /\ regLock = Free
    /\ regPoisoned = FALSE
    /\ cell = << >>
    /\ pc = [t \in Tasks |-> "idle"]
    /\ fut = [t \in Tasks |-> 0]
    /\ ret = [t \in Tasks |-> FALSE]
    /\ notified = [t \in Tasks |-> FALSE]
    /\ spc = [s \in Setters |-> "idle"]
    /\ idx = [s \in Setters |-> 0]
    /\ obs = [called |-> FALSE, val |-> FALSE]
    /\ lastOp = "new"
    /\ armed = [t \in Tasks |-> FALSE]
    /\ wc = NewWaiter
    /\ log = << >>
    /\ lk = LkInit

\* ------------------------------------------------------------------ Event::wait

\* The wait() calls that have not registered yet.
Unregistered == {t \in Tasks : pc[t] \in {"called", "register"}}

SettersIdle == \A s \in Setters : spc[s] = "idle"

\* A task calls wait(): the future exists, nothing of its body has run.
StartWait(t) ==
    /\ pc[t] \in {"idle", "done"}
    /\ Len(waiters) + Cardinality(Unregistered) < MaxWaiters
    /\ pc' = [pc EXCEPT ![t] = "called"]
    /\ fut' = [fut EXCEPT ![t] = 0]
    /\ ret' = [ret EXCEPT ![t] = FALSE]
    /\ armed' = [armed EXCEPT ![t] = (lastOp = "clear" /\ SettersIdle)]
    /\ UNCHANGED <<signaled, waiters, regLock, regPoisoned, cell, notified,
                   spc, idx, obs, lastOp, wc, log, lk>>

\* wait() that registers whatever the flag says.
WaitReadIgnoresFlag(t) ==
    /\ pc[t] = "called"
    /\ pc' = [pc EXCEPT ![t] = "register"]
    /\ UNCHANGED <<signaled, waiters, regLock, regPoisoned, cell, fut, ret,
                   notified, spc, idx, obs, lastOp, armed, wc, log, lk>>

\* let state = *self.state.read().unwrap(); if !state { .. } true
WaitRead(t) ==
    /\ pc[t] = "called"
    /\ IF ~signaled
       THEN /\ pc' = [pc EXCEPT ![t] = "register"]
            /\ UNCHANGED ret
       ELSE /\ pc' = [pc EXCEPT ![t] = "done"]
            /\ ret' = [ret EXCEPT ![t] = TRUE]
    /\ UNCHANGED <<signaled, waiters, regLock, regPoisoned, cell, fut,
                   notified, spc, idx, obs, lastOp, armed, wc, log, lk>>

\* wait() that creates its Waiter and awaits it without the push.
WaitRegisterNoPush(t) ==
    /\ pc[t] = "register"
    /\ cell' = Append(cell, NewWaiter)
    /\ fut' = [fut EXCEPT ![t] = Len(cell) + 1]
    /\ pc' = [pc EXCEPT ![t] = "poll"]
    /\ UNCHANGED <<signaled, waiters, regLock, regPoisoned, ret, notified, spc,
                   idx, obs, lastOp, armed, wc, log, lk>>

\* let fut = Waiter::new(); self.waiters.lock().unwrap().push(fut.clone());
WaitRegister(t) ==
    /\ pc[t] = "register"
    /\ regLock = Free
    /\ IF regPoisoned
       THEN /\ pc' = [pc EXCEPT ![t] = "panicked"]
            /\ UNCHANGED <<waiters, cell, fut>>
       ELSE /\ cell' = Append(cell, NewWaiter)
            /\ waiters' = Append(waiters, Len(cell) + 1)
            /\ fut' = [fut EXCEPT ![t] = Len(cell) + 1]
            /\ pc' = [pc EXCEPT ![t] = "poll"]
    /\ UNCHANGED <<signaled, regLock, regPoisoned, ret, notified, spc, idx,
                   obs, lastOp, armed, wc, log, lk>>

\* fut.await: one poll of the task's Waiter, with the task's own waker.
WaitPoll(t) ==
    /\ pc[t] = "poll"
    /\ LET r == PollCell(cell[fut[t]], t) IN
        /\ cell' = [cell EXCEPT ![fut[t]] = r.cell]
        /\ IF r.out = "Ready"
           THEN /\ pc' = [pc EXCEPT ![t] = "done"]
                /\ ret' = [ret EXCEPT ![t] = TRUE]
           ELSE /\ pc' = [pc EXCEPT ![t] =
                            IF r.out = "Pending" THEN "suspended" ELSE "panicked"]
                /\ UNCHANGED ret
    /\ UNCHANGED <<signaled, waiters, regLock, regPoisoned, fut, notified,
                   spc, idx, obs, lastOp, armed, wc, log, lk>>

\* The executor polls a suspended task again once its Waker was invoked.
Resume(t) ==
    /\ pc[t] = "suspended"
    /\ notified[t]
    /\ pc' = [pc EXCEPT ![t] = "poll"]
    /\ notified' = [notified EXCEPT ![t] = FALSE]
    /\ UNCHANGED <<signaled, waiters, regLock, regPoisoned, cell, fut, ret,
                   spc, idx, obs, lastOp, armed, wc, log, lk>>

\* A drop of the suspended future that takes its Waiter out of the registry.
CancelUnregisters(t) ==
    /\ pc[t] = "suspended"
    /\ regLock = Free
    /\ pc' = [pc EXCEPT ![t] = "dropped"]
    /\ armed' = [armed EXCEPT ![t] = FALSE]
    /\ waiters' = SelectSeq(waiters, LAMBDA w : w # fut[t])
    /\ UNCHANGED <<signaled, regLock, regPoisoned, cell, fut, ret,
                   notified, spc, idx, obs, lastOp, wc, log, lk>>

\* The suspended wait() future is dropped: its Waiter handle goes, the clone
\* in the registry stays.
Cancel(t) ==
    /\ pc[t] = "suspended"
    /\ pc' = [pc EXCEPT ![t] = "dropped"]
    /\ armed' = [armed EXCEPT ![t] = FALSE]
    /\ UNCHANGED <<signaled, waiters, regLock, regPoisoned, cell, fut, ret,
                   notified, spc, idx, obs, lastOp, wc, log, lk>>

\* ------------------------------------------------------------------ Event::set

\* set() that wakes the registry without writing the flag.
SetWriteNoFlag(s) ==
    /\ spc[s] = "idle"
    /\ spc' = [spc EXCEPT ![s] = "lock"]
    /\ armed' = [t \in Tasks |-> FALSE]
    /\ UNCHANGED <<signaled, waiters, regLock, regPoisoned, cell, pc, fut, ret,
                   notified, idx, obs, lastOp, wc, log, lk>>

\* { let mut state = self.state.write().unwrap(); *state = true; }
SetWrite(s) ==
    /\ spc[s] = "idle"
    /\ signaled' = TRUE
    /\ spc' = [spc EXCEPT ![s] = "lock"]
    /\ armed' = [t \in Tasks |-> FALSE]
    /\ UNCHANGED <<waiters, regLock, regPoisoned, cell, pc, fut, ret, notified,
                   idx, obs, lastOp, wc, log, lk>>

\* self.waiters.lock().unwrap(): held until the loop ends.
SetLock(s) ==
    /\ spc[s] = "lock"
    /\ regLock = Free
    /\ IF regPoisoned
       THEN /\ spc' = [spc EXCEPT ![s] = "panicked"]
            /\ UNCHANGED <<regLock, idx>>
       ELSE /\ spc' = [spc EXCEPT ![s] = "iter"]
            /\ regLock' = s
            /\ idx' = [idx EXCEPT ![s] = 1]
    /\ UNCHANGED <<signaled, waiters, regPoisoned, cell, pc, fut, ret, notified,
                   obs, lastOp, armed, wc, log, lk>>

\* set() whose loop stops after the first entry.
SetWakeFirstOnly(s) ==
    /\ spc[s] = "iter"
    /\ idx[s] <= Len(waiters)
    /\ LET w == waiters[idx[s]]
           r == WakeCell(cell[w], Unit) IN
        /\ cell' = [cell EXCEPT ![w] = r.cell]
        /\ notified' = IF r.fired = NoWaker THEN notified
                       ELSE [notified EXCEPT ![r.fired] = TRUE]
        /\ idx' = [idx EXCEPT ![s] = Len(waiters) + 1]
        /\ UNCHANGED <<spc, regLock, regPoisoned>>
    /\ UNCHANGED <<signaled, waiters, pc, fut, ret, obs, lastOp, armed, wc, log, lk>>

\* set() whose wake fails on a Waiter that nobody awaits any more.
SetWakePanicsOnOrphan(s) ==
    /\ spc[s] = "iter"
    /\ idx[s] <= Len(waiters)
    /\ LET w == waiters[idx[s]]
           r == WakeCell(cell[w], Unit)
           orphan == \E t \in Tasks : fut[t] = w /\ pc[t] = "dropped" IN
        IF orphan
        THEN /\ spc' = [spc EXCEPT ![s] = "panicked"]
             /\ regLock' = Free
             /\ regPoisoned' = TRUE
             /\ idx' = [idx EXCEPT ![s] = 0]
             /\ UNCHANGED <<cell, notified>>
        ELSE /\ cell' = [cell EXCEPT ![w] = r.cell]
             /\ notified' = IF r.fired = NoWaker THEN notified
                            ELSE [notified EXCEPT ![r.fired] = TRUE]
             /\ idx' = [idx EXCEPT ![s] = idx[s] + 1]
             /\ UNCHANGED <<spc, regLock, regPoisoned>>
    /\ UNCHANGED <<signaled, waiters, pc, fut, ret, obs, lastOp, armed, wc, log, lk>>

\* One turn of `for i in ...iter() { i.wake(()); }`.  A wake that panics
\* unwinds through the registry guard: set() ends and the registry Mutex is
\* poisoned.
SetWake(s) ==
    /\ spc[s] = "iter"
    /\ idx[s] <= Len(waiters)
    /\ LET w == waiters[idx[s]]
           r == WakeCell(cell[w], Unit) IN
        /\ cell' = [cell EXCEPT ![w] = r.cell]
        /\ notified' = IF r.fired = NoWaker THEN notified
                       ELSE [notified EXCEPT ![r.fired] = TRUE]
        /\ IF r.out = "Panic"
           THEN /\ spc' = [spc EXCEPT ![s] = "panicked"]
                /\ regLock' = Free
                /\ regPoisoned' = TRUE
                /\ idx' = [idx EXCEPT ![s] = 0]
           ELSE /\ idx' = [idx EXCEPT ![s] = idx[s] + 1]
                /\ UNCHANGED <<spc, regLock, regPoisoned>>
    /\ UNCHANGED <<signaled, waiters, pc, fut, ret, obs, lastOp, armed, wc, log, lk>>

\* The loop is over: the registry guard is dropped and set() returns.
SetUnlock(s) ==
    /\ spc[s] = "iter"
    /\ idx[s] > Len(waiters)
    /\ regLock' = Free
    /\ spc' = [spc EXCEPT ![s] = "idle"]
    /\ idx' = [idx EXCEPT ![s] = 0]
    /\ lastOp' = "set"
    /\ UNCHANGED <<signaled, waiters, regPoisoned, cell, pc, fut, ret, notified,
                   obs, armed, wc, log, lk>>

\* ------------------------------------------------------------------ clear, is_set

\* clear() that leaves the flag as it is.
ClearNoWrite ==
    /\ lastOp' = "clear"
    /\ UNCHANGED <<signaled, waiters, regLock, regPoisoned, cell, pc, fut, ret,
                   notified, spc, idx, obs, armed, wc, log, lk>>

\* clear() that also empties the registry.
ClearPrunes ==
    /\ signaled' = FALSE
    /\ lastOp' = "clear"
    /\ waiters' = << >>
    /\ UNCHANGED <<regLock, regPoisoned, cell, pc, fut, ret, notified,
                   spc, idx, obs, armed, wc, log, lk>>

\* clear() that notifies the registry, as set() does, on its change of the flag.
ClearWakesWaiters ==
    /\ signaled' = FALSE
    /\ lastOp' = "clear"
    /\ cell' = [i \in DOMAIN cell |-> WakeCell(cell[i], Unit).cell]
    /\ notified' = [t \in Tasks |->
                      notified[t] \/ \E i \in DOMAIN cell : cell[i].waker = t]
    /\ UNCHANGED <<waiters, regLock, regPoisoned, pc, fut, ret,
                   spc, idx, obs, armed, wc, log, lk>>

\* *self.state.write().unwrap() = false;
Clear ==
    /\ signaled' = FALSE
    /\ lastOp' = "clear"
    /\ UNCHANGED <<waiters, regLock, regPoisoned, cell, pc, fut, ret, notified,
                   spc, idx, obs, armed, wc, log, lk>>

\* *self.state.read().unwrap()
IsSet ==
    /\ obs' = [called |-> TRUE, val |-> signaled]
    /\ UNCHANGED <<signaled, waiters, regLock, regPoisoned, cell, pc, fut, ret,
                   notified, spc, idx, lastOp, armed, wc, log, lk>>

\* ------------------------------------------------------------------ specifications

\* The steps inside an operation that has begun.
Internal ==
    \/ \E t \in Tasks : WaitRead(t)
    \/ \E t \in Tasks : WaitRegister(t)
    \/ \E t \in Tasks : WaitPoll(t)
    \/ \E s \in Setters : SetLock(s)
    \/ \E s \in Setters : SetWake(s)
    \/ \E s \in Setters : SetUnlock(s)

\* The calls made on the Event from outside, and the executor's scheduling.
External ==
    \/ \E t \in Tasks : StartWait(t)
    \/ \E t \in Tasks : Resume(t)
    \/ \E t \in Tasks : Cancel(t)
    \/ \E s \in Setters : SetWrite(s)
    \/ Clear
    \/ IsSet

Next == Internal \/ External

\* Threads and tasks interleaved at every critical section.
Spec == Init /\ [][Next]_vars

\* An operation is between its first and its last step.
Running ==
    \/ \E t \in Tasks : pc[t] \in {"called", "register", "poll"}
    \/ \E s \in Setters : spc[s] \in {"lock", "iter"}

SeqNext == Internal \/ (~Running /\ External)

\* The same operations with no two of them overlapping: each call runs until
\* it returns or suspends before the next begins.
SeqSpec == Init /\ [][SeqNext]_vars

\* ------------------------------------------------------------------ a Waiter on its own

\* waiter.wake(v), called on any clone of the stand-alone Waiter.
WWake(v) ==
    /\ Len(log) < MaxOps
    /\ LET r == WakeCell(wc, v) IN
        /\ wc' = r.cell
        /\ log' = Append(log, [op |-> "wake", v |-> v, tok |-> NoWaker,
                               out |-> r.out, got |-> None, fired |-> r.fired,
                               was |-> wc.completed, stored |-> wc.waker])
    /\ UNCHANGED <<evars, lk>>

\* One poll of the stand-alone Waiter, through any clone, at any time.  Each
\* poll hands in a callback of its own, numbered by its place in the history.
WPoll ==
    /\ Len(log) < MaxOps
    /\ LET r == PollCell(wc, Len(log) + 1) IN
        /\ wc' = r.cell
        /\ log' = Append(log, [op |-> "poll", v |-> None, tok |-> Len(log) + 1,
                               out |-> r.out, got |-> r.got, fired |-> NoWaker,
                               was |-> wc.completed, stored |-> wc.waker])
    /\ UNCHANGED <<evars, lk>>

WNext ==
    \/ \E v \in Values : WWake(v)
    \/ WPoll

\* Any sequence of wakes and polls on one Waiter.
WaiterSpec == Init /\ [][WNext]_vars

\* ------------------------------------------------------------------ lock by lock

\* What the lock-by-lock steps never touch: the bookkeeping of the coarser
\* specifications and the stand-alone Waiter.
lrest == <<regLock, regPoisoned, pc, fut, ret, spc, idx, lastOp, armed, wc, log>>

\* The wait() calls that have not pushed their Waiter yet.
LUnregistered ==
    {t \in Tasks : lk.pc[t] \in {"wantRead", "reading", "wantReg", "pushing"}}

\* A task calls wait().
LCallWait(t) ==
    /\ lk.pc[t] = "idle"
    /\ Len(waiters) + Cardinality(LUnregistered) < MaxWaiters
    /\ lk' = [lk EXCEPT !.pc[t] = "wantRead", !.fut[t] = 0]
    /\ UNCHANGED <<signaled, waiters, cell, notified, obs, lrest>>

\* A thread calls set(), clear() or is_set().
LCall(c, o) ==
    /\ lk.pc[c] = "idle"
    /\ lk' = [lk EXCEPT !.op[c] = o,
                        !.pc[c] = IF o = "is_set" THEN "wantRead" ELSE "wantWrite"]
    /\ UNCHANGED <<signaled, waiters, cell, notified, obs, lrest>>

\* self.state.read(): granted while no writer holds the RwLock.
LReadLock(th) ==
    /\ lk.pc[th] = "wantRead"
    /\ lk.flagW = 0
    /\ lk' = [lk EXCEPT !.flagR = lk.flagR \cup {th}, !.pc[th] = "reading"]
    /\ UNCHANGED <<signaled, waiters, cell, notified, obs, lrest>>

\* wait(): `let state = *...;` the read guard is dropped at the end of the
\* statement; `if !state { .. } true`.
LWaitRead(t) ==
    /\ t \in Tasks
    /\ lk.pc[t] = "reading"
    /\ lk' = [lk EXCEPT !.flagR = lk.flagR \ {t},
                        !.pc[t] = IF signaled THEN "idle" ELSE "wantReg"]
    /\ UNCHANGED <<signaled, waiters, cell, notified, obs, lrest>>

\* is_set(): read the flag, drop the guard, return the value to the caller.
LIsSetRead(c) ==
    /\ c \in Callers
    /\ lk.pc[c] = "reading"
    /\ lk' = [lk EXCEPT !.flagR = lk.flagR \ {c}, !.pc[c] = "idle",
                        !.op[c] = "none"]
    /\ UNCHANGED <<signaled, waiters, cell, notified, obs, lrest>>

\* self.state.write(): granted while nobody holds the RwLock.
LWriteLock(c) ==
    /\ lk.pc[c] = "wantWrite"
    /\ lk.flagW = 0
    /\ lk.flagR = {}
    /\ lk' = [lk EXCEPT !.flagW = c, !.pc[c] = "writing"]
    /\ UNCHANGED <<signaled, waiters, cell, notified, obs, lrest>>

\* set() and clear(): write the flag and drop the write guard; clear()
\* returns, set() goes on to the registry.
LWriteFlag(c) ==
    /\ lk.pc[c] = "writing"
    /\ signaled' = (lk.op[c] = "set")
    /\ lk' = [lk EXCEPT !.flagW = 0,
                        !.pc[c] = IF lk.op[c] = "set" THEN "wantReg" ELSE "idle",
                        !.op[c] = IF lk.op[c] = "set" THEN "set" ELSE "none"]
    /\ UNCHANGED <<waiters, cell, notified, obs, lrest>>

\* self.waiters.lock(), in wait() and in set().
LRegLock(th) ==
    /\ lk.pc[th] = "wantReg"
    /\ lk.reg = 0
    /\ lk' = IF th \in Tasks
             THEN [lk EXCEPT !.reg = th, !.pc[th] = "pushing"]
             ELSE [lk EXCEPT !.reg = th, !.pc[th] = "iter", !.idx[th] = 1]
    /\ UNCHANGED <<signaled, waiters, cell, notified, obs, lrest>>

\* wait() whose registry guard lives on after the push, across the await.
LPushKeepsGuard(t) ==
    /\ lk.pc[t] = "pushing"
    /\ cell' = Append(cell, NewWaiter)
    /\ waiters' = Append(waiters, Len(cell) + 1)
    /\ lk' = [lk EXCEPT !.cl = Append(lk.cl, 0),
                        !.fut[t] = Len(cell) + 1,
                        !.pc[t] = "wantCell"]
    /\ UNCHANGED <<signaled, notified, obs, lrest>>

\* wait(): waiters.push(fut.clone()), and the block ends: the registry guard
\* is dropped before fut.await.
LPush(t) ==
    /\ lk.pc[t] = "pushing"
    /\ cell' = Append(cell, NewWaiter)
    /\ waiters' = Append(waiters, Len(cell) + 1)
    /\ lk' = [lk EXCEPT !.cl = Append(lk.cl, 0),
                        !.fut[t] = Len(cell) + 1,
                        !.reg = 0,
                        !.pc[t] = "wantCell"]
    /\ UNCHANGED <<signaled, notified, obs, lrest>>

\* poll: self.0.lock() on the task's own Waiter.
LPollLock(t) ==
    /\ lk.pc[t] = "wantCell"
    /\ lk.cl[lk.fut[t]] = 0
    /\ lk' = [lk EXCEPT !.cl[lk.fut[t]] = t, !.pc[t] = "polling"]
    /\ UNCHANGED <<signaled, waiters, cell, notified, obs, lrest>>

\* poll: the body, and the guard dropped on return.
LPoll(t) ==
    /\ lk.pc[t] = "polling"
    /\ LET r == PollCell(cell[lk.fut[t]], t) IN
        /\ cell' = [cell EXCEPT ![lk.fut[t]] = r.cell]
        /\ lk' = [lk EXCEPT !.cl[lk.fut[t]] = 0,
                            !.fut[t] = IF r.out = "Ready" THEN 0 ELSE lk.fut[t],
                            !.pc[t] = IF r.out = "Ready" THEN "idle"
                                      ELSE IF r.out = "Pending" THEN "suspended"
                                      ELSE "panicked"]
    /\ UNCHANGED <<signaled, waiters, notified, obs, lrest>>

\* The executor polls the task again after its Waker was invoked.
LResume(t) ==
    /\ lk.pc[t] = "suspended"
    /\ notified[t]
    /\ notified' = [notified EXCEPT ![t] = FALSE]
    /\ lk' = [lk EXCEPT !.pc[t] = "wantCell"]
    /\ UNCHANGED <<signaled, waiters, cell, obs, lrest>>

\* set(): i.wake(()) begins with self.0.lock(), taken with the registry held.
LWakeLock(c) ==
    /\ lk.pc[c] = "iter"
    /\ lk.idx[c] <= Len(waiters)
    /\ lk.cl[waiters[lk.idx[c]]] = 0
    /\ lk' = [lk EXCEPT !.cl[waiters[lk.idx[c]]] = c, !.pc[c] = "waking"]
    /\ UNCHANGED <<signaled, waiters, cell, notified, obs, lrest>>

\* wake: the body, with the Waker invoked under the Waiter's lock (a
\* notification: it takes no lock of the Event), and the guard dropped.
LWake(c) ==
    /\ lk.pc[c] = "waking"
    /\ LET w == waiters[lk.idx[c]]
           r == WakeCell(cell[w], Unit) IN
        /\ cell' = [cell EXCEPT ![w] = r.cell]
        /\ notified' = IF r.fired = NoWaker THEN notified
                       ELSE [notified EXCEPT ![r.fired] = TRUE]
        /\ lk' = IF r.out = "Panic"
                 THEN [lk EXCEPT !.cl[w] = 0, !.reg = 0, !.pc[c] = "panicked"]
                 ELSE [lk EXCEPT !.cl[w] = 0, !.idx[c] = lk.idx[c] + 1,
                                 !.pc[c] = "iter"]
    /\ UNCHANGED <<signaled, waiters, obs, lrest>>

\* set(): the loop is over, the registry guard is dropped.
LSetReturn(c) ==
    /\ lk.pc[c] = "iter"
    /\ lk.idx[c] > Len(waiters)
    /\ lk' = [lk EXCEPT !.reg = 0, !.idx[c] = 0, !.pc[c] = "idle",
                        !.op[c] = "none"]
    /\ UNCHANGED <<signaled, waiters, cell, notified, obs, lrest>>

\* The steps of operations that have begun: lock acquisitions and the bodies
\* that follow them.
LInternal ==
    \/ \E th \in Threads : LReadLock(th)
    \/ \E t \in Tasks : LWaitRead(t)
    \/ \E c \in Callers : LIsSetRead(c)
    \/ \E c \in Callers : LWriteLock(c)
    \/ \E c \in Callers : LWriteFlag(c)
    \/ \E th \in Threads : LRegLock(th)
    \/ \E t \in Tasks : LPush(t)
    \/ \E t \in Tasks : LPollLock(t)
    \/ \E t \in Tasks : LPoll(t)
    \/ \E c \in Callers : LWakeLock(c)
    \/ \E c \in Callers : LWake(c)
    \/ \E c \in Callers : LSetReturn(c)

LExternal ==
    \/ \E t \in Tasks : LCallWait(t)
    \/ \E t \in Tasks : LResume(t)
    \/ \E c \in Callers : \E o \in {"set", "clear", "is_set"} : LCall(c, o)

LNext == LInternal \/ LExternal

\* wait, set, clear and is_set with every lock acquisition a step of its own.
LockSpec == Init /\ [][LNext]_vars

\* The threads inside an operation: neither between calls nor suspended.
LActive == {th \in Threads : lk.pc[th] \notin {"idle", "suspended", "panicked"}}

\* The Waiter locks a thread holds.
LCellsHeld(th) == {i \in DOMAIN lk.cl : lk.cl[i] = th}

\* ------------------------------------------------------------------ history

\* The polls that returned Ready, the wakes that stored a value.
ReadyPolls == {i \in DOMAIN log : log[i].op = "poll" /\ log[i].out = "Ready"}
Wakes == {i \in DOMAIN log : log[i].op = "wake" /\ log[i].out = "Ok"}

NoWakeAfterReady == \A i \in ReadyPolls : \A j \in Wakes : j < i
NoPollAfterReady ==
    \A i \in ReadyPolls : \A j \in DOMAIN log : j > i => log[j].op # "poll"

\* A poll returned the value and no wake has stored one since.
ValueTaken == \E i \in ReadyPolls : \A j \in Wakes : j < i

\* The registry entries, all completed.
AllCompleted == \A i \in 1..Len(waiters) : cell[waiters[i]].completed

\* ------------------------------------------------------------------ claims

\* C1 (as claimed): once a set() call has run to completion and no clear()
\* followed it, no task that was inside wait() when that set() wrote the flag
\* is left pending with nothing to resume it.  A task is stranded when the flag
\* is set, no set() is running, and the task is suspended on a Waiter that is
\* not completed and whose callback nobody has invoked: it read the flag as
\* false, so the write that set it came while the task was inside wait(), and
\* from here only another set() call can make its wait() return.
C1_NoTaskStranded ==
    \A t \in Tasks :
        ~(/\ signaled
          /\ SettersIdle
          /\ pc[t] = "suspended"
          /\ ~notified[t]
          /\ ~cell[fut[t]].completed)

\* C2: when a set() call returns (its loop is over and it drops the registry
\* guard), every Waiter in the registry is completed, whatever wait(), clear()
\* and other set() calls ran in between.
C2_RegisteredAreWoken ==
    [][\A s \in Setters :
         (spc[s] = "iter" /\ spc'[s] = "idle")
             => \A i \in 1..Len(waiters') : cell'[waiters'[i]].completed]_vars

\* C2 witness: a set() has returned over a registry of two Waiters, both
\* completed, one of them registered by a task that is still to poll it.
C2_Witness ==
    /\ lastOp = "set"
    /\ SettersIdle
    /\ Len(waiters) = 2
    /\ AllCompleted
    /\ \E t \in Tasks : pc[t] = "poll"

\* C3: with no two operations overlapping, is_set() returns true exactly when
\* the flag operation that completed last is a set(): false after new() and
\* after clear(), true after set().
C3_IsSetFollowsLastOp ==
    [][IsSet => (obs'.val = (lastOp = "set"))]_vars

\* C3 witness: is_set() returned false after a clear() that followed a set()
\* which had woken a waiter.
C3_Witness ==
    /\ obs.called /\ obs.val = FALSE
    /\ lastOp = "clear"
    /\ \E i \in DOMAIN cell : cell[i].completed

\* C4: the step of wait() that reads the flag as true ends the call: it
\* returns true, the registry and every Waiter are as they were, and the call
\* has no Waiter of its own.
C4_SetWaitReturnsAtOnce ==
    [][\A t \in Tasks :
         (pc[t] = "called" /\ signaled /\ pc'[t] # "called")
             => /\ pc'[t] = "done"
                /\ ret'[t] = TRUE
                /\ fut'[t] = 0
                /\ waiters' = waiters
                /\ cell' = cell
                /\ notified' = notified]_vars

\* C4 witness: a wait() returned true without a Waiter while another task's
\* Waiter sits in the registry.
C4_Witness ==
    \E t \in Tasks :
        /\ pc[t] = "done"
        /\ ret[t] = TRUE
        /\ fut[t] = 0
        /\ Len(waiters) > 0

\* C5: a wait() call that began after clear() returned, with no set() running
\* then and none begun since, has not returned; once it has registered, its
\* Waiter is in the registry, is nobody else's, and is not completed, so its
\* poll suspends.
C5_Rearm ==
    \A t \in Tasks :
        armed[t] =>
            /\ pc[t] \in {"called", "register", "poll", "suspended"}
            /\ ret[t] = FALSE
            /\ pc[t] \in {"poll", "suspended"} =>
                /\ \E i \in 1..Len(waiters) : waiters[i] = fut[t]
                /\ \A u \in Tasks \ {t} : fut[u] # fut[t]
                /\ ~cell[fut[t]].completed
                /\ ~notified[t]

\* C5 witness: after a set() that completed a Waiter and a clear(), a later
\* wait() is suspended on a fresh Waiter.
C5_Witness ==
    \E t \in Tasks :
        /\ armed[t]
        /\ pc[t] = "suspended"
        /\ ~signaled
        /\ \E i \in DOMAIN cell : cell[i].completed

C7_ValueIffCompleted ==
    (wc.value # None) <=> wc.completed

\* C7 (amended): the value slot is populated if and only if the Waiter is
\* completed and no poll has returned the value since the last wake.
C7_ValueIffCompletedAndNotTaken ==
    (wc.value # None) <=> (wc.completed /\ ~ValueTaken)

\* C7 witness: a completed Waiter whose value a poll has returned.
C7_Witness ==
    /\ wc.completed
    /\ wc.value = None
    /\ ReadyPolls # {}

\* C8 (as claimed): every poll made after a poll that returned the value
\* panics, whatever wakes came in between.
C8_LaterPollsPanic ==
    \A i \in ReadyPolls : \A j \in DOMAIN log :
        (j > i /\ log[j].op = "poll") => log[j].out = "Panic"

\* C9: a wake that completes a Waiter holding a callback invokes that
\* callback; a wake on a completed Waiter invokes none; no callback is invoked
\* by two wakes.
C9_CallbackOnce ==
    /\ \A i \in Wakes :
        /\ (~log[i].was /\ log[i].stored # NoWaker) => log[i].fired = log[i].stored
        /\ log[i].was => log[i].fired = NoWaker
    /\ \A i \in Wakes : \A j \in Wakes :
        (i < j /\ log[i].fired # NoWaker) => log[j].fired # log[i].fired

\* C9 witness: a poll stored a callback, a wake invoked it, and a second wake
\* found the Waiter completed.
C9_Witness ==
    \E i \in Wakes : \E j \in Wakes :
        /\ i < j
        /\ log[i].fired # NoWaker
        /\ log[j].was

\* C10: a Waiter is created not completed, and no step of wait(), set(),
\* clear() or is_set() takes a completed Waiter back to not completed.
C10_CompletedIsForever ==
    [][/\ \A i \in DOMAIN cell : cell[i].completed => cell'[i].completed
       /\ \A i \in DOMAIN cell' \ DOMAIN cell : ~cell'[i].completed]_vars

\* C10 witness: a Waiter completed by set() has yielded its value to its
\* task, and the Event was cleared afterwards.
C10_Witness ==
    \E t \in Tasks :
        /\ pc[t] = "done"
        /\ fut[t] # 0
        /\ cell[fut[t]].completed
        /\ cell[fut[t]].value = None
        /\ lastOp = "clear"

\* A step of clear() that changes anything: the flag goes from true to false,
\* or clear() becomes the operation that completed last.
ClearStep ==
    \/ signaled /\ ~signaled'
    \/ lastOp # "clear" /\ lastOp' = "clear"

\* C11: a step of clear() leaves the registry, every Waiter, every task and
\* every pending notification as they were; and a task that polls a completed
\* Waiter returns true from wait(), whatever the flag says by then.
C11_ClearTouchesOnlyFlag ==
    [][/\ ClearStep =>
            /\ ~signaled'
            /\ waiters' = waiters
            /\ cell' = cell
            /\ pc' = pc /\ fut' = fut /\ ret' = ret /\ notified' = notified
            /\ spc' = spc /\ idx' = idx /\ regLock' = regLock
       /\ \A t \in Tasks :
            (pc[t] = "poll" /\ cell[fut[t]].completed /\ pc'[t] # "poll")
                => (pc'[t] = "done" /\ ret'[t] = TRUE)]_vars

\* C11 witness: a task woken by set() is about to poll its completed Waiter
\* after the executor resumed it, and clear() has already reset the flag.
C11_Witness ==
    \E t \in Tasks :
        /\ pc[t] = "poll"
        /\ cell[fut[t]].completed
        /\ cell[fut[t]].waker = NoWaker
        /\ ~signaled
        /\ lastOp = "clear"
        /\ SettersIdle

\* C12: every step keeps the registry as a prefix of what it becomes, and the
\* registry grows by exactly one entry for each wait() call that registers in
\* that step; set(), clear(), is_set(), polls and cancellation leave it alone.
C12_RegistryOnlyGrows ==
    [][/\ Len(waiters') >= Len(waiters)
       /\ SubSeq(waiters', 1, Len(waiters)) = waiters
       /\ Len(waiters') = Len(waiters) + Cardinality(
              {t \in Tasks : pc[t] = "register" /\ pc'[t] = "poll"})]_vars

\* C12 witness: two wait() calls registered, one of them was cancelled, a
\* set() woke the registry and a clear() followed: both entries are there.
C12_Witness ==
    /\ Len(waiters) = 2
    /\ \E t \in Tasks : pc[t] = "dropped"
    /\ \A i \in 1..Len(waiters) : cell[waiters[i]].completed
    /\ lastOp = "clear"

\* C13: with tasks dropped while suspended, no set() call panics and no Mutex
\* is poisoned; a set() inside its loop can always take its next step (the
\* next wake, or the return), and every entry it has passed, an orphaned one
\* included, is completed.
C13_OrphanWakeIsSafe ==
    /\ ~regPoisoned
    /\ \A i \in DOMAIN cell : ~cell[i].poisoned
    /\ \A s \in Setters :
        /\ spc[s] # "panicked"
        /\ spc[s] = "iter" =>
            /\ ENABLED (SetWake(s) \/ SetUnlock(s))
            /\ \A i \in 1..(idx[s] - 1) : cell[waiters[i]].completed

\* C13 witness: a set() has returned after waking the Waiter of a dropped
\* task and, after it in the registry, the Waiter of a task that then
\* returned from wait().
C13_Witness ==
    /\ lastOp = "set"
    /\ SettersIdle
    /\ \E t \in Tasks : \E u \in Tasks :
        /\ pc[t] = "dropped"
        /\ cell[fut[t]].completed
        /\ pc[u] = "done"
        /\ fut[u] > fut[t]
        /\ ret[u] = TRUE

\* A task suspended on a Waiter that is not completed, with no notification
\* on its way.
Pending(t) ==
    /\ pc[t] = "suspended"
    /\ ~notified[t]
    /\ ~cell[fut[t]].completed

Registered == {waiters[i] : i \in 1..Len(waiters)}

\* C15: a task that is about to poll its Waiter, or is suspended on it, holds
\* a Waiter that is in the registry; and a Waiter that was ever polled (it
\* holds a callback) is in the registry.
C15_RegisteredBeforePolled ==
    /\ \A t \in Tasks :
        pc[t] \in {"poll", "suspended"} => fut[t] \in Registered
    /\ \A i \in DOMAIN cell :
        cell[i].waker # NoWaker => i \in Registered

\* C15 witness: two tasks are suspended, each on its own entry of the
\* registry, each entry holding that task's callback.
C15_Witness ==
    /\ \A t \in Tasks :
        /\ pc[t] = "suspended"
        /\ fut[t] \in Registered
        /\ cell[fut[t]].waker = t
    /\ \E t \in Tasks : \E u \in Tasks : fut[t] # fut[u]

\* C16: a completed Waiter stores no callback; a task suspended on a Waiter
\* that is not completed has its callback stored there, for the wake to
\* invoke; and a task suspended on a completed Waiter has been notified.
C16_NoLostWakeup ==
    /\ \A i \in DOMAIN cell : cell[i].completed => cell[i].waker = NoWaker
    /\ \A t \in Tasks :
        pc[t] = "suspended" =>
            IF cell[fut[t]].completed
            THEN notified[t]
            ELSE cell[fut[t]].waker = t

\* C16 witness: a wake came after a poll had returned Pending: the task is
\* still suspended, its Waiter is completed and holds the value, and the
\* task's callback has been invoked.
C16_Witness ==
    \E t \in Tasks :
        /\ pc[t] = "suspended"
        /\ cell[fut[t]].completed
        /\ cell[fut[t]].value = Unit
        /\ notified[t]

\* C17: a turn of set()'s loop over an entry that is already completed
\* invokes no callback and moves no task; no task is notified unless it is
\* suspended (or was dropped while suspended); and a wait() call that has
\* returned stays returned until the task calls wait() again.
C17_StaleEntriesInert ==
    [][/\ \A s \in Setters :
            (/\ spc[s] = "iter"
             /\ idx'[s] = idx[s] + 1
             /\ cell[waiters[idx[s]]].completed)
                => (notified' = notified /\ pc' = pc /\ ret' = ret)
       /\ \A t \in Tasks :
            /\ notified'[t] => pc'[t] \in {"suspended", "dropped"}
            /\ pc[t] = "done" => pc'[t] \in {"done", "called"}]_vars

\* C17 witness: a task returned from wait(), taking the value out of its
\* Waiter, and a later turn of a set() loop woke that entry again: the slot
\* is refilled, and the task is neither notified nor moved.
C17_Witness ==
    \E t \in Tasks :
        /\ pc[t] = "done"
        /\ ret[t] = TRUE
        /\ fut[t] # 0
        /\ cell[fut[t]].value = Unit
        /\ ~notified[t]

\* The callback the Waiter holds after step i of the history: what the next
\* step found stored, or what the cell holds now.
StoredAfter(i) == IF i < Len(log) THEN log[i + 1].stored ELSE wc.waker

\* The polls made before step i.
PollsBefore(i) == {j \in DOMAIN log : j < i /\ log[j].op = "poll"}

\* C18: every poll of a Waiter that is not completed returns Pending and
\* leaves its own callback stored; the wake that completes the Waiter invokes
\* the callback of the last poll before it (none if there was no poll) and no
\* earlier one.
C18_LatestCallbackOnly ==
    /\ \A j \in DOMAIN log :
        (log[j].op = "poll" /\ ~log[j].was)
            => (log[j].out = "Pending" /\ StoredAfter(j) = log[j].tok)
    /\ \A i \in Wakes :
        ~log[i].was =>
            /\ PollsBefore(i) = {} => log[i].fired = NoWaker
            /\ PollsBefore(i) # {} =>
                /\ log[i].fired \in PollsBefore(i)
                /\ \A j \in PollsBefore(i) : j <= log[i].fired

\* C18 witness: three polls of a pending Waiter, then the wake, which invokes
\* the third poll's callback.
C18_Witness ==
    /\ Len(log) >= 4
    /\ \A j \in 1..3 : log[j].op = "poll" /\ log[j].out = "Pending"
    /\ log[4].op = "wake"
    /\ log[4].fired = log[3].tok

\* C19: a wait() call returns only with true, and only from the step that
\* read the flag as true or from a poll of its registered, completed Waiter;
\* a Waiter becomes completed only by a turn of a set() loop over its registry
\* entry, and the flag becomes true only by the first step of a set() call.
\* So with no set() call, no wait() call returns.
C19_NoSpuriousReturn ==
    [][/\ \A t \in Tasks :
            (pc[t] # "done" /\ pc'[t] = "done") =>
                /\ ret'[t] = TRUE
                /\ \/ pc[t] = "called" /\ signaled
                   \/ /\ pc[t] = "poll"
                      /\ fut[t] \in Registered
                      /\ cell[fut[t]].completed
       /\ \A i \in DOMAIN cell :
            (~cell[i].completed /\ cell'[i].completed) =>
                \E s \in Setters :
                    /\ spc[s] = "iter"
                    /\ idx[s] <= Len(waiters)
                    /\ waiters[idx[s]] = i
                    /\ idx'[s] = idx[s] + 1
       /\ (~signaled /\ signaled') =>
            \E s \in Setters : spc[s] = "idle" /\ spc'[s] = "lock"]_vars

\* C19 witness: both ways to return have happened: one task returned on
\* reading the flag as true, the other after set() woke its Waiter.
C19_Witness ==
    \E t \in Tasks : \E u \in Tasks :
        /\ pc[t] = "done" /\ ret[t] = TRUE /\ fut[t] = 0
        /\ pc[u] = "done" /\ ret[u] = TRUE /\ fut[u] # 0
        /\ cell[fut[u]].completed
\* C20: the locking discipline cannot deadlock. set() holds the registry lock
\* for all of its loop, and inside it at most the lock of the Waiter it is
\* waking; wait() and poll hold neither a Waiter lock nor the flag lock when
\* they ask for the registry lock; whoever holds the flag lock is asking for no
\* other lock; and whenever some operation is running, one of the running
\* operations can take its next step.
C20_NoDeadlock ==
    /\ \A c \in Callers :
        /\ lk.pc[c] \in {"iter", "waking"} => lk.reg = c
        /\ lk.pc[c] = "waking" => LCellsHeld(c) = {waiters[lk.idx[c]]}
        /\ lk.pc[c] # "waking" => LCellsHeld(c) = {}
    /\ \A th \in Threads :
        lk.pc[th] = "wantReg" =>
            /\ th \notin lk.flagR
            /\ lk.flagW # th
            /\ LCellsHeld(th) = {}
    /\ \A t \in Tasks :
        /\ lk.reg = t => lk.pc[t] = "pushing"
        /\ LCellsHeld(t) # {} => lk.pc[t] = "polling" /\ lk.reg # t
    /\ \A th \in Threads :
        (th \in lk.flagR \/ lk.flagW = th) =>
            /\ lk.pc[th] \in {"reading", "writing"}
            /\ lk.reg # th
            /\ LCellsHeld(th) = {}
    /\ LActive # {} => ENABLED LInternal

\* set() is waking a Waiter with the registry and that Waiter's lock held,
\* while the Waiter's task waits for the same Waiter lock to poll and another
\* wait() waits for the registry lock.
C20_Witness ==
    \E c \in Callers : \E t, u \in Tasks :
        /\ lk.pc[c] = "waking"
        /\ lk.pc[t] = "wantReg"
        /\ lk.pc[u] = "wantCell"
        /\ lk.fut[u] = waiters[lk.idx[c]]

====
